---- MODULE Spec2Model ----
(***************************************************************************)
(* Climate controller: relay debounce (Scripts/heating.py), the threshold  *)
(* monitors (Scripts/monitors.py), the schedule / hold engine              *)
(* (Scripts/scheduler.py), the web mutators (Scripts/web_server.py) and    *)
(* the start-up sequence (main.py).                                        *)
(*                                                                         *)
(* Time is measured in abstract units.  `now` is the true time elapsed     *)
(* since boot; time.time() reads it directly, time.localtime() reads its   *)
(* time of day, and time.ticks_ms() reads it modulo the tick period.       *)
(***************************************************************************)
EXTENDS Integers, Sequences, FiniteSets, TLC

VARIABLES
    now,                    \* true time since boot
    \* ---- HeaterController (Scripts/heating.py)
    is_on,                  \* self.is_on
    relay_out,              \* the Pin driven by self.relay.on()/off()
    last_state_change,      \* self.last_state_change, a ticks_ms() reading
    lastOnAt,               \* history: true time of the last off->on transition
    lastOffAt,              \* history: true time of the last on->off transition, force_off or construction
    relay_ret,              \* return value of the last turn_on/turn_off call
    \* ---- schedule engine and web mutators
    config,                 \* the shared config dict
    ac_target_temp,         \* ac_monitor.target_temp
    heater_target_temp,     \* heater_monitor.target_temp
    last_applied_schedule,  \* schedule_monitor.last_applied_schedule
    temp_hold_duration,     \* schedule_monitor.temp_hold_duration
    holdEntry,              \* history: how the present temporary hold was entered
    \* ---- threshold monitors (Scripts/monitors.py) and the AC relay
    ac_is_on,               \* ac_controller: the relay is on
    ac_relay_out,           \* ac_controller: the output pin
    ac_last_state_change,   \* ac_controller: time of its last transition
    reading,                \* the snapshot the last monitor run read, None when empty
    ac_temp_swing,          \* ac_monitor.temp_swing
    heater_temp_swing,      \* heater_monitor.temp_swing
    ac_last_notified_state,     \* ac_monitor.last_notified_state
    heater_last_notified_state, \* heater_monitor.last_notified_state
    command,                \* history: the relay command of the last monitor run
    request,                \* history: the target fields of the last manual submission
    reapplied,              \* history: the last step was a tick resolving the schedule the tick before it applied
    effects,                \* history: config writes and notifications of the last step, in order
    op,                     \* the operation that made the last step
    result,                 \* what the last web handler returned
    \* ---- interval gating (should_run)
    last_check_ms,          \* ac_monitor.last_check_ms, a ticks_ms() reading
    last_check,             \* last_check of the schedule and the temperature monitor
    lastRunAt,              \* history: true time should_run last returned True, per monitor
    \* ---- TemperatureMonitor (Scripts/monitors.py)
    alert_sent,             \* self.alert_sent
    alert_start_time,       \* self.alert_start_time, a time.time() reading or None
    last_temp,              \* self.last_temp, the cached reading
    last_report,            \* self.last_report, a time.time() reading
    excursionStart,         \* history: true time of the reading that started the excursion
    duration_str,           \* history: duration_str of the last run's recovery message
    lastNotice              \* history: kind of the latest alert or recovery notification

relayVars  == <<is_on, relay_out, last_state_change, lastOnAt, lastOffAt, relay_ret>>
engineVars == <<config, ac_target_temp, heater_target_temp, last_applied_schedule,
                temp_hold_duration, holdEntry, result>>
acRelayVars == <<ac_is_on, ac_relay_out, ac_last_state_change>>
pollVars == <<last_check_ms, last_check, lastRunAt>>
alertVars == <<alert_sent, alert_start_time, last_temp, last_report, excursionStart,
               duration_str, lastNotice>>
monitorVars == <<acRelayVars, reading, ac_temp_swing, heater_temp_swing,
                 ac_last_notified_state, heater_last_notified_state, command,
                 pollVars, alertVars>>
vars == <<now, relayVars, engineVars, monitorVars, request, reapplied, effects, op>>

(***************************************************************************)
(* Bounds                                                                  *)
(***************************************************************************)
MaxTime == 3            \* the engine's clock stops here
RelayMaxTime == 11      \* the relay's clock stops here (beyond one tick period)
TicksPeriod == 8        \* period of the ticks_ms() counter, in time units
UnitsPerDay == 4        \* time units in one day of wall-clock time
MinRunTime == 3         \* HeaterController(min_run_time=...)
MinOffTime == 2         \* HeaterController(min_off_time=...)
HoldDuration == 2       \* config['temp_hold_duration']
ACMinRunTime == 2       \* ACController(min_run_time=...)
ACMinOffTime == 1       \* ACController(min_off_time=...)
MonitorMaxTime == 7     \* the clock of the threshold monitors stops here
PollInterval == 2       \* ACMonitor(interval=...)
ScheduleInterval == 3   \* ScheduleMonitor(interval=...)
CheckInterval == 1      \* TemperatureMonitor(check_interval=...)
SecondsPerUnit == 1830  \* seconds in one time unit, for the temperature monitor
BootEpoch == 1          \* time.time() when the board boots, in seconds
ReportInterval == 3000  \* TemperatureMonitor(report_interval=...), in seconds
RetryMaxTime == 22      \* the clock of the retried relay commands stops here
PollMaxTime == 18       \* the clock of the polled monitors stops here

(***************************************************************************)
(* Python values                                                           *)
(***************************************************************************)
DefaultACSwing == 1         \* main.py:100  'ac_swing': 1.0
DefaultHeaterSwing == 2     \* main.py:102  'heater_swing': 2.0
AlertHigh == 80             \* main.py:241  'alert_high': 80.0
AlertLow == 70              \* main.py:242  'alert_low': 70.0
SanityLow == -50            \* monitors.py:80  temp < -50
SanityHigh == 150           \* monitors.py:80  temp > 150

None == -1              \* None where a number may stand
Absent == -2            \* key not in the dict, where a number may stand
Missing == -3           \* form field not submitted or empty
BadNumber == -4         \* form field that float() rejects

\* no manual submission
NoRequest == [ac |-> Missing, ht |-> Missing]

\* dict.get(key, False) on a key holding "True", "False" or "Absent"
GetBool(v) == v = "True"

\* dict.get(key) on a key holding a number, None or Absent
GetNum(v) == IF v = Absent THEN None ELSE v

(***************************************************************************)
(* time.ticks_ms() / time.ticks_diff()                                     *)
(***************************************************************************)
ticks_ms(t) == t % TicksPeriod

ticks_diff(a, b) ==
    LET half == TicksPeriod \div 2
    IN  ((a - b + half) % TicksPeriod) - half

(***************************************************************************)
(* HeaterController                                                        *)
(***************************************************************************)
OnGateBlocks_NoGate(time_since_change) == FALSE

OnGateBlocks_Always(time_since_change) == TRUE

\* heating.py:29  if time_since_change < self.min_off_time: return False
OnGateBlocks(time_since_change) == time_since_change < MinOffTime

OffGateBlocks_ShortRun(time_since_change) == time_since_change < MinRunTime - 1

\* heating.py:48  if time_since_change < self.min_run_time: return False
OffGateBlocks(time_since_change) == time_since_change < MinRunTime

Heater_turn_on_ResetsTimer ==
    IF is_on
         THEN /\ relay_ret' = TRUE
              /\ last_state_change' = ticks_ms(now)
              /\ UNCHANGED <<is_on, relay_out, lastOnAt, lastOffAt>>
         ELSE LET t == ticks_ms(now)
                  time_since_change == ticks_diff(t, last_state_change)
              IN  IF OnGateBlocks(time_since_change)
                    THEN /\ relay_ret' = FALSE
                         /\ UNCHANGED <<is_on, relay_out, last_state_change,
                                        lastOnAt, lastOffAt>>
                    ELSE /\ relay_out' = TRUE
                         /\ is_on' = TRUE
                         /\ last_state_change' = t
                         /\ lastOnAt' = now
                         /\ relay_ret' = TRUE
                         /\ UNCHANGED lastOffAt

\* heating.py:21-38  HeaterController.turn_on: what it does to the relay
Heater_turn_on ==
    IF is_on
         THEN /\ relay_ret' = TRUE
              /\ UNCHANGED <<is_on, relay_out, last_state_change, lastOnAt, lastOffAt>>
         ELSE LET t == ticks_ms(now)
                  time_since_change == ticks_diff(t, last_state_change)
              IN  IF OnGateBlocks(time_since_change)
                    THEN /\ relay_ret' = FALSE
                         /\ UNCHANGED <<is_on, relay_out, last_state_change,
                                        lastOnAt, lastOffAt>>
                    ELSE /\ relay_out' = TRUE
                         /\ is_on' = TRUE
                         /\ last_state_change' = t
                         /\ lastOnAt' = now
                         /\ relay_ret' = TRUE
                         /\ UNCHANGED lastOffAt

turn_on ==
    /\ op' = "turn_on"
    /\ request' = NoRequest
    /\ reapplied' = FALSE
    /\ Heater_turn_on
    /\ effects' = <<>>
    /\ UNCHANGED <<now, engineVars, monitorVars>>

\* heating.py:40-57  HeaterController.turn_off: what it does to the relay
Heater_turn_off ==
    IF ~is_on
         THEN /\ relay_ret' = TRUE
              /\ UNCHANGED <<is_on, relay_out, last_state_change, lastOnAt, lastOffAt>>
         ELSE LET t == ticks_ms(now)
                  time_since_change == ticks_diff(t, last_state_change)
              IN  IF OffGateBlocks(time_since_change)
                    THEN /\ relay_ret' = FALSE
                         /\ UNCHANGED <<is_on, relay_out, last_state_change,
                                        lastOnAt, lastOffAt>>
                    ELSE /\ relay_out' = FALSE
                         /\ is_on' = FALSE
                         /\ last_state_change' = t
                         /\ lastOffAt' = now
                         /\ relay_ret' = TRUE
                         /\ UNCHANGED lastOnAt

turn_off ==
    /\ op' = "turn_off"
    /\ request' = NoRequest
    /\ reapplied' = FALSE
    /\ Heater_turn_off
    /\ effects' = <<>>
    /\ UNCHANGED <<now, engineVars, monitorVars>>

force_off_Gated ==
    /\ op' = "force_off"
    /\ request' = NoRequest
    /\ reapplied' = FALSE
    /\ IF is_on /\ OffGateBlocks(ticks_diff(ticks_ms(now), last_state_change))
         THEN UNCHANGED <<is_on, relay_out, last_state_change, lastOffAt>>
         ELSE /\ relay_out' = FALSE
              /\ is_on' = FALSE
              /\ last_state_change' = ticks_ms(now)
              /\ lastOffAt' = now
    /\ effects' = <<>>
    /\ UNCHANGED <<now, lastOnAt, relay_ret, engineVars, monitorVars>>

\* heating.py:63-68  HeaterController.force_off
force_off ==
    /\ op' = "force_off"
    /\ request' = NoRequest
    /\ reapplied' = FALSE
    /\ relay_out' = FALSE
    /\ is_on' = FALSE
    /\ last_state_change' = ticks_ms(now)
    /\ lastOffAt' = now
    /\ effects' = <<>>
    /\ UNCHANGED <<now, lastOnAt, relay_ret, engineVars, monitorVars>>

\* the clock moves between two calls on the relay
RelayClock ==
    /\ now < RelayMaxTime
    /\ now' = now + 1
    /\ op' = "clock"
    /\ request' = NoRequest
    /\ reapplied' = FALSE
    /\ effects' = <<>>
    /\ UNCHANGED <<relayVars, engineVars, monitorVars>>

(***************************************************************************)
(* Schedules.  A time string "HH:MM" is modelled by the list of numbers    *)
(* that split(':') and int() make of it: <<6, 0>> is "06:00", <<6>> has no *)
(* colon, <<6, 0, 0>> has two.                                             *)
(***************************************************************************)
Entry(t, n, ac, ht) == [time |-> t, name |-> n, ac_target |-> ac, heater_target |-> ht]

\* scheduler.py:33  hours * 60 + minutes, None when the string does not parse
_parse_time(time_str) ==
    IF Len(time_str) >= 2 THEN time_str[1] * 60 + time_str[2] ELSE None

\* scheduler.py:43  t[3] * 60 + t[4] of time.localtime()
_get_current_minutes(t) ==
    LET minutes_per_unit == 1440 \div UnitsPerDay
        minute_of_day == (t % UnitsPerDay) * minutes_per_unit
        hours == minute_of_day \div 60
        minutes == minute_of_day % 60
    IN  hours * 60 + minutes

\* scheduler.py:61-65  the (minutes, schedule) pairs of the parseable entries
ParsedPairs(schedules) ==
    SelectSeq([i \in 1..Len(schedules) |->
                    <<_parse_time(schedules[i].time), schedules[i]>>],
              LAMBDA pair : pair[1] # None)

\* scheduler.py:67  comparing two (minutes, dict) tuples with equal minutes and
\* different dicts compares the dicts with <, which raises TypeError
SortRaises(pairs) ==
    \E i, j \in 1..Len(pairs) : i # j /\ pairs[i][1] = pairs[j][1] /\ pairs[i][2] # pairs[j][2]

\* scheduler.py:67  sorted_schedules.sort(), ascending by minutes: the pair at
\* index i goes to the place after the pairs that sort before it
SortPairs(pairs) ==
    LET before(i) == {j \in 1..Len(pairs) :
                        \/ pairs[j][1] < pairs[i][1]
                        \/ (pairs[j][1] = pairs[i][1] /\ j < i)}
    IN  [r \in 1..Len(pairs) |->
            pairs[CHOOSE i \in 1..Len(pairs) : Cardinality(before(i)) = r - 1]]

\* scheduler.py:70-75  the last pair whose minutes have passed, the loop
\* breaking at the first that has not; 0 when none has
LastPassed(sorted, current_minutes) ==
    CHOOSE k \in 0..Len(sorted) :
        /\ \A i \in 1..k : current_minutes >= sorted[i][1]
        /\ k < Len(sorted) => current_minutes < sorted[k + 1][1]

NoSchedule == Entry(<<>>, "", None, None)

FindActive_IgnoreHold(cfg, t) ==
    LET pairs == ParsedPairs(cfg.schedules)
        sorted == SortPairs(pairs)
        k == LastPassed(sorted, _get_current_minutes(t))
    IN  IF Len(cfg.schedules) = 0 \/ Len(sorted) = 0
          THEN [status |-> "none", sched |-> NoSchedule]
        ELSE IF SortRaises(pairs) THEN [status |-> "raised", sched |-> NoSchedule]
        ELSE [status |-> "found", sched |-> sorted[IF k = 0 THEN Len(sorted) ELSE k][2]]

\* scheduler.py:48-81  ScheduleMonitor._find_active_schedule at time t:
\* "none" (returns None), "raised" (the sort raises) or "found"
FindActive(cfg, t) ==
    IF ~GetBool(cfg.schedule_enabled) THEN [status |-> "none", sched |-> NoSchedule]
    ELSE IF Len(cfg.schedules) = 0 THEN [status |-> "none", sched |-> NoSchedule]
    ELSE LET pairs == ParsedPairs(cfg.schedules)
         IN  IF SortRaises(pairs) THEN [status |-> "raised", sched |-> NoSchedule]
             ELSE LET sorted == SortPairs(pairs)
                      k == LastPassed(sorted, _get_current_minutes(t))
                  IN  IF Len(sorted) = 0 THEN [status |-> "none", sched |-> NoSchedule]
                      ELSE [status |-> "found",
                            sched |-> sorted[IF k = 0 THEN Len(sorted) ELSE k][2]]

\* scheduler.py:88  schedule.get('time', '') + schedule.get('name', '')
ScheduleId(schedule) == <<schedule.time, schedule.name>>

NoApplied == <<>>       \* last_applied_schedule = None

(***************************************************************************)
(* ScheduleMonitor                                                         *)
(***************************************************************************)
\* the part of the program state that _apply_schedule reads and writes
EngineState(cfg, ac, ht, last) ==
    [config |-> cfg, ac |-> ac, heater |-> ht, last |-> last]

_apply_schedule_KeepHeater(st, schedule) ==
    LET schedule_id == ScheduleId(schedule)
        cfg == [st.config EXCEPT !.ac_target = schedule.ac_target,
                                 !.heater_target = schedule.heater_target]
    IN  IF schedule_id = st.last THEN st
        ELSE EngineState(cfg, schedule.ac_target, st.heater, schedule_id)

\* scheduler.py:83-174  ScheduleMonitor._apply_schedule
_apply_schedule(st, schedule) ==
    LET schedule_id == ScheduleId(schedule)
        cfg == [st.config EXCEPT !.ac_target = schedule.ac_target,
                                 !.heater_target = schedule.heater_target]
    IN  IF schedule_id = st.last THEN st
        ELSE EngineState(cfg, schedule.ac_target, schedule.heater_target, schedule_id)

\* scheduler.py:223-227  reload_config: self.last_applied_schedule = None
\* (self.config = new_config rebinds the same dict)
reload_config(last) == NoApplied

ExpiryDue_Permanent(cfg, duration, t) ==
    /\ ~GetBool(cfg.schedule_enabled)
    /\ GetNum(cfg.temp_hold_start_time) # None
    /\ t - GetNum(cfg.temp_hold_start_time) >= duration

\* scheduler.py:180-187  the temporary hold has expired
ExpiryDue(cfg, duration, t) ==
    /\ ~GetBool(cfg.schedule_enabled)
    /\ ~GetBool(cfg.permanent_hold)
    /\ GetNum(cfg.temp_hold_start_time) # None
    /\ t - GetNum(cfg.temp_hold_start_time) >= duration

\* scheduler.py:176-221  ScheduleMonitor.run
RunSchedule(st, duration, t) ==
    LET expired == ExpiryDue(st.config, duration, t)
        cfg1 == IF expired
                  THEN [st.config EXCEPT !.schedule_enabled = "True",
                                         !.temp_hold_start_time = None]
                  ELSE st.config
        st1 == [st EXCEPT !.config = cfg1]
        active == FindActive(cfg1, t)
    IN  IF active.status = "found" THEN _apply_schedule(st1, active.sched) ELSE st1

\* how many of the effects are among kinds
ApplyCount(seq, kinds) == Cardinality({i \in 1..Len(seq) : seq[i] \in kinds})

ApplyEffects_NotifyFirst(st, schedule, written) ==
    LET changed == \/ st.config.ac_target # schedule.ac_target
                   \/ st.config.heater_target # schedule.heater_target
    IN  IF ScheduleId(schedule) = st.last THEN <<>>
        ELSE <<"apply_notify">>
             \o (IF ~changed THEN <<>>
                 ELSE IF written THEN <<"apply_write">> ELSE <<"apply_write_failed">>)

ApplyEffects_AlwaysWrite(st, schedule, written) ==
    IF ScheduleId(schedule) = st.last THEN <<>>
    ELSE (IF written THEN <<"apply_write">> ELSE <<"apply_write_failed">>)
         \o <<"apply_notify">>

\* scheduler.py:90-166  what _apply_schedule writes and sends: nothing when
\* the schedule is the last applied one, else a config.json write if a target
\* changed, then the notification; written is whether the write succeeds
ApplyEffects(st, schedule, written) ==
    LET changed == \/ st.config.ac_target # schedule.ac_target
                   \/ st.config.heater_target # schedule.heater_target
    IN  IF ScheduleId(schedule) = st.last THEN <<>>
        ELSE (IF ~changed THEN <<>>
              ELSE IF written THEN <<"apply_write">> ELSE <<"apply_write_failed">>)
             \o <<"apply_notify">>

\* scheduler.py:193-221  what run writes and sends: on expiry a config.json
\* write and, if it succeeded, a notification; then those of _apply_schedule
RunEffects(st, duration, t, expiry_written, written) ==
    LET expired == ExpiryDue(st.config, duration, t)
        cfg1 == IF expired
                  THEN [st.config EXCEPT !.schedule_enabled = "True",
                                         !.temp_hold_start_time = None]
                  ELSE st.config
        st1 == [st EXCEPT !.config = cfg1]
        active == FindActive(cfg1, t)
    IN  (IF ~expired THEN <<>>
         ELSE IF expiry_written THEN <<"expiry_write", "expiry_notify">>
         ELSE <<"expiry_write_failed">>)
        \o (IF active.status = "found" THEN ApplyEffects(st1, active.sched, written)
            ELSE <<>>)

\* web_server.py:210-242  _save_config_to_file as an effect
SaveEffect(saved) == IF saved THEN <<"save">> ELSE <<"save_failed">>

\* web_server.py:686-697  the mode the dashboard shows for a config
Mode(cfg) ==
    IF GetBool(cfg.schedule_enabled) THEN "Automatic"
    ELSE IF GetBool(cfg.permanent_hold) THEN "PermanentHold"
    ELSE "TemporaryHold"

CurrentState == EngineState(config, ac_target_temp, heater_target_temp,
                            last_applied_schedule)

\* the engine variables take the values of st
Becomes(st) ==
    /\ config' = st.config
    /\ ac_target_temp' = st.ac
    /\ heater_target_temp' = st.heater
    /\ last_applied_schedule' = st.last

\* one schedule-engine tick: ScheduleMonitor.run() called by run_monitors
ScheduleTick ==
    /\ \E st \in {RunSchedule(CurrentState, temp_hold_duration, now)} : Becomes(st)
    /\ \E expiry_written, written \in BOOLEAN :
           effects' = RunEffects(CurrentState, temp_hold_duration, now,
                                 expiry_written, written)
    /\ holdEntry' = IF ExpiryDue(config, temp_hold_duration, now) THEN "none" ELSE holdEntry
    /\ reapplied' = ( /\ op = "tick"
                      /\ ApplyCount(effects, {"apply_notify"}) = 1
                      /\ FindActive(config, now).status = "found"
                      /\ ScheduleId(FindActive(config, now).sched) = last_applied_schedule )
    /\ op' = "tick"
    /\ request' = NoRequest
    /\ result' = "none"
    /\ UNCHANGED <<now, relayVars, monitorVars, temp_hold_duration>>

\* wall-clock time passes
AdvanceClock ==
    /\ now < MaxTime
    /\ now' = now + 1
    /\ op' = "advance"
    /\ request' = NoRequest
    /\ reapplied' = FALSE
    /\ result' = "none"
    /\ effects' = <<>>
    /\ UNCHANGED <<relayVars, monitorVars, config, ac_target_temp, heater_target_temp,
                   last_applied_schedule, temp_hold_duration, holdEntry>>

(***************************************************************************)
(* TempWebServer._handle_schedule_update: the mode actions                 *)
(***************************************************************************)
ResumeState_RollsBack(st, t, saved) ==
    LET cfg == [st.config EXCEPT !.schedule_enabled = "True", !.permanent_hold = "False"]
        st1 == [st EXCEPT !.config = cfg]
        st2 == [st1 EXCEPT !.last = reload_config(st1.last)]
        active == FindActive(cfg, t)
    IN  IF ~saved THEN st
        ELSE IF active.status = "found" THEN _apply_schedule(st2, active.sched)
        ELSE st2

\* web_server.py:268-299  mode_action == 'resume'; saved is what
\* _save_config_to_file returned
ResumeState(st, t, saved) ==
    LET cfg == [st.config EXCEPT !.schedule_enabled = "True", !.permanent_hold = "False"]
        st1 == [st EXCEPT !.config = cfg]
        st2 == [st1 EXCEPT !.last = reload_config(st1.last)]
        active == FindActive(cfg, t)
    IN  IF ~saved THEN st1
        ELSE IF active.status = "found" THEN _apply_schedule(st2, active.sched)
        ELSE st2

\* web_server.py:273-290  the save, the effects of the immediate apply, and the
\* notification, which an exception of _find_active_schedule skips
ResumeEffects(st, t, saved, written) ==
    LET cfg == [st.config EXCEPT !.schedule_enabled = "True", !.permanent_hold = "False"]
        st2 == [st EXCEPT !.config = cfg, !.last = reload_config(st.last)]
        active == FindActive(cfg, t)
    IN  IF ~saved THEN <<"save_failed", "notify">>
        ELSE IF active.status = "raised" THEN <<"save">>
        ELSE IF active.status = "found"
          THEN <<"save">> \o ApplyEffects(st2, active.sched, written) \o <<"notify">>
        ELSE <<"save", "notify">>

HandleResume ==
    \E saved \in BOOLEAN :
        /\ Becomes(ResumeState(CurrentState, now, saved))
        /\ \E written \in BOOLEAN :
               effects' = ResumeEffects(CurrentState, now, saved, written)
        /\ holdEntry' = "none"
        /\ op' = "resume"
        /\ request' = NoRequest
        /\ reapplied' = FALSE
        \* an exception of _find_active_schedule lands in the handler's except clause
        /\ result' = IF saved /\ FindActive([config EXCEPT !.schedule_enabled = "True",
                                                           !.permanent_hold = "False"],
                                            now).status = "raised"
                       THEN "redirect_schedule" ELSE "redirect"
        /\ UNCHANGED <<now, relayVars, monitorVars, temp_hold_duration>>

\* web_server.py:303-304  the config a 'temporary_hold' request leaves
TemporaryHoldConfig(cfg) ==
    [cfg EXCEPT !.schedule_enabled = "False", !.permanent_hold = "False"]

\* web_server.py:301-323  mode_action == 'temporary_hold'
HandleTemporaryHold ==
    \E saved \in BOOLEAN :
        LET cfg == TemporaryHoldConfig(config)
        IN  /\ config' = cfg
            /\ last_applied_schedule' = IF saved THEN reload_config(last_applied_schedule)
                                        ELSE last_applied_schedule
            /\ holdEntry' = IF Mode(config) = "TemporaryHold" THEN holdEntry ELSE "explicit"
            /\ effects' = SaveEffect(saved) \o <<"notify">>
            /\ op' = "temporary_hold"
            /\ request' = NoRequest
            /\ reapplied' = FALSE
            /\ result' = "redirect"
            /\ UNCHANGED <<now, relayVars, monitorVars, ac_target_temp, heater_target_temp,
                           temp_hold_duration>>

PermanentHoldConfig_KeepSchedule(cfg) == [cfg EXCEPT !.permanent_hold = "True"]

\* web_server.py:327-328  the config a 'permanent_hold' request leaves
PermanentHoldConfig(cfg) ==
    [cfg EXCEPT !.schedule_enabled = "False", !.permanent_hold = "True"]

\* web_server.py:325-348  mode_action == 'permanent_hold'
HandlePermanentHold ==
    \E saved \in BOOLEAN :
        LET cfg == PermanentHoldConfig(config)
        IN  /\ config' = cfg
            /\ last_applied_schedule' = IF saved THEN reload_config(last_applied_schedule)
                                        ELSE last_applied_schedule
            /\ holdEntry' = "none"
            /\ effects' = SaveEffect(saved) \o <<"notify">>
            /\ op' = "permanent_hold"
            /\ request' = NoRequest
            /\ reapplied' = FALSE
            /\ result' = "redirect"
            /\ UNCHANGED <<now, relayVars, monitorVars, ac_target_temp, heater_target_temp,
                           temp_hold_duration>>

(***************************************************************************)
(* TempWebServer._handle_update: manual target submission                  *)
(***************************************************************************)
Temps == {70, 80}

\* what a target field of the form may hold
TargetInputs == Temps \cup {Missing, BadNumber}

ManualRejected_SubmittedOnly(cfg, ac, ht) ==
    ac # Missing /\ ht # Missing /\ ht > ac

\* web_server.py:552-555  heater target above AC target, the current config
\* value standing in for a field that was not submitted
ManualRejected(cfg, ac, ht) ==
    LET new_heater_target == IF ht # Missing THEN ht ELSE cfg.heater_target
        new_ac_target == IF ac # Missing THEN ac ELSE cfg.ac_target
    IN  new_heater_target > new_ac_target

\* web_server.py:568-597  the accepted submission: targets, hold mode, timer
ManualConfig(cfg, ac, ht, hold_type, t) ==
    LET is_permanent == hold_type = "perm"
    IN  [cfg EXCEPT !.ac_target = IF ac # Missing THEN ac ELSE @,
                    !.heater_target = IF ht # Missing THEN ht ELSE @,
                    !.schedule_enabled = "False",
                    !.permanent_hold = IF is_permanent THEN "True" ELSE "False",
                    !.temp_hold_start_time = IF is_permanent THEN None ELSE t]

\* web_server.py:532-639  _handle_update on a form with the fields ac_target,
\* heater_target and hold_type
Update(ac, ht, hold_type) ==
        /\ op' = "update"
        /\ request' = [ac |-> ac, ht |-> ht]
        /\ reapplied' = FALSE
        /\ IF ac = BadNumber \/ ht = BadNumber
             THEN \* float(value) raises; the except clause prints and falls through
                  /\ result' = "status_page"
                  /\ effects' = <<>>
                  /\ UNCHANGED <<config, ac_target_temp, heater_target_temp,
                                 last_applied_schedule, holdEntry>>
           ELSE IF ManualRejected(config, ac, ht)
             THEN /\ result' = "error_page"
                  /\ effects' = <<>>
                  /\ UNCHANGED <<config, ac_target_temp, heater_target_temp,
                                 last_applied_schedule, holdEntry>>
           ELSE LET cfg == ManualConfig(config, ac, ht, hold_type, now)
                IN  /\ ac_target_temp' = IF ac # Missing THEN ac ELSE ac_target_temp
                    /\ heater_target_temp' = IF ht # Missing THEN ht ELSE heater_target_temp
                    /\ last_applied_schedule' = reload_config(last_applied_schedule)
                    \* a successful save is read back into the same dict
                    /\ config' = cfg
                    /\ holdEntry' = IF hold_type = "perm" THEN "none" ELSE "manual"
                    /\ \E saved \in BOOLEAN : effects' = SaveEffect(saved) \o <<"notify">>
                    /\ result' = "status_page"
        /\ UNCHANGED <<now, relayVars, monitorVars, temp_hold_duration>>

HandleUpdate ==
    \E ac, ht \in TargetInputs, hold_type \in {"temp", "perm"} : Update(ac, ht, hold_type)

(***************************************************************************)
(* TempWebServer._handle_settings_update: the advanced settings form       *)
(***************************************************************************)
\* what a swing field of the form may hold: nothing, text that float()
\* rejects, zero, or one of the default swings
SwingInputs == {Missing, BadNumber, 0, DefaultACSwing, DefaultHeaterSwing}

\* web_server.py:1708-1775  the swing fields of the form; the swing keys of
\* config are not modelled, only the monitors' temp_swing
HandleSettingsUpdate ==
    \E ac_swing, heater_swing \in SwingInputs :
        /\ op' = "settings"
        /\ request' = NoRequest
        /\ reapplied' = FALSE
        /\ result' = "redirect"
        /\ IF ac_swing = BadNumber \/ heater_swing = BadNumber
             THEN \* float(value) raises before anything is assigned
                  /\ effects' = <<>>
                  /\ UNCHANGED <<ac_temp_swing, heater_temp_swing>>
             ELSE /\ ac_temp_swing' = IF ac_swing # Missing THEN ac_swing ELSE ac_temp_swing
                  /\ heater_temp_swing' =
                         IF heater_swing # Missing THEN heater_swing ELSE heater_temp_swing
                  /\ \E saved \in BOOLEAN : effects' = SaveEffect(saved) \o <<"notify">>
        /\ UNCHANGED <<now, relayVars, config, ac_target_temp, heater_target_temp,
                       last_applied_schedule, temp_hold_duration, holdEntry, acRelayVars,
                       reading, ac_last_notified_state, heater_last_notified_state,
                       command, pollVars, alertVars>>

(***************************************************************************)
(* TempWebServer._handle_schedule_update: the schedule form                *)
(***************************************************************************)
Slot(t, n, ac, ht) == [time |-> t, name |-> n, ac |-> ac, heater |-> ht]

\* web_server.py:376-431  why slot s is refused, "" when it is not
SlotError(s) ==
    IF s.time = <<>> THEN ""
    ELSE IF s.ac = Missing THEN "Incomplete Schedule"
    ELSE IF s.heater = Missing THEN "Incomplete Schedule"
    ELSE IF Len(s.time) # 2 THEN "Invalid Time"
    ELSE IF ~(0 <= s.time[1] /\ s.time[1] <= 23 /\ 0 <= s.time[2] /\ s.time[2] <= 59)
        THEN "Invalid Time"
    ELSE IF s.ac = BadNumber \/ s.heater = BadNumber THEN "Invalid Temperature"
    ELSE ""

\* web_server.py:366-442  the schedule entries of the slots that have a time
ParsedSchedules(form) ==
    LET F[i \in 0..Len(form)] ==
            IF i = 0 THEN <<>>
            ELSE IF form[i].time = <<>> THEN F[i-1]
            ELSE Append(F[i-1], Entry(form[i].time, form[i].name, form[i].ac, form[i].heater))
    IN  F[Len(form)]

\* web_server.py:453-467  some entry has its heater target above its AC target
ScheduleRejected(schedules) ==
    \E i \in 1..Len(schedules) : schedules[i].heater_target > schedules[i].ac_target

SlotA == Slot(<<6, 0>>, "A", 80, 70)
SlotB == Slot(<<18, 0>>, "B", 70, 70)
SlotInverted == Slot(<<6, 0>>, "A", 70, 80)
SlotSameTime == Slot(<<6, 0>>, "D", 80, 80)
EmptySlot == Slot(<<>>, "", Missing, Missing)
RefusedSlots == { Slot(<<6>>, "A", 80, 70),
                  Slot(<<24, 0>>, "A", 80, 70),
                  Slot(<<6, 0>>, "A", Missing, 70),
                  Slot(<<6, 0>>, "A", 80, Missing),
                  Slot(<<6, 0>>, "A", 80, BadNumber) }

\* the forms a user posts: no schedule field at all, empty slots, a list
\* with an inverted entry, two well-formed lists, and the refused slots
Forms ==
    { <<>>, <<EmptySlot>>, <<SlotInverted>>, <<SlotB, SlotInverted>>,
      <<SlotA, SlotB>>, <<SlotA, SlotSameTime>> }
    \cup {<<s>> : s \in RefusedSlots}

\* web_server.py:350-530  mode_action == 'save_schedules' or none; saved is
\* what _save_config_to_file returned
HandleScheduleSave ==
    \E form \in Forms, saved \in BOOLEAN :
        LET has_any_schedule_data == Len(form) > 0
            schedules == ParsedSchedules(form)
            cfg == IF has_any_schedule_data THEN [config EXCEPT !.schedules = schedules]
                   ELSE config
        IN  /\ op' = "save_schedules"
            /\ request' = NoRequest
            /\ reapplied' = FALSE
            /\ IF \E i \in 1..Len(form) : SlotError(form[i]) # ""
                 THEN /\ result' = "error_page"
                      /\ effects' = <<>>
                      /\ UNCHANGED <<config, ac_target_temp, heater_target_temp,
                                     last_applied_schedule>>
               ELSE IF ScheduleRejected(schedules)
                 THEN \* config['schedules'] was assigned before the validation
                      /\ config' = cfg
                      /\ result' = "error_page"
                      /\ effects' = <<>>
                      /\ UNCHANGED <<ac_target_temp, heater_target_temp,
                                     last_applied_schedule>>
               ELSE IF saved
                 THEN /\ config' = cfg
                      /\ last_applied_schedule' = reload_config(last_applied_schedule)
                      /\ ac_target_temp' = cfg.ac_target
                      /\ heater_target_temp' = cfg.heater_target
                      /\ result' = "redirect"
                      /\ effects' = <<"save", "notify">>
               ELSE /\ config' = cfg
                    /\ result' = "redirect"
                    /\ effects' = <<"save_failed", "notify">>
                    /\ UNCHANGED <<ac_target_temp, heater_target_temp, last_applied_schedule>>
            /\ UNCHANGED <<now, relayVars, monitorVars, temp_hold_duration, holdEntry>>

(***************************************************************************)
(* ACController.  Its source, scripts/air_conditioning.py, is not part of  *)
(* the sources at hand; it is modelled from the behaviour stated for relay *)
(* controllers: turn_on succeeds when already on, fails while less than    *)
(* min_off_time has passed since the last transition, else switches the    *)
(* output and records the time; turn_off likewise with min_run_time.       *)
(***************************************************************************)
\* whether ACController.turn_on() returns True
AC_turn_on_ok == ac_is_on \/ ~(now - ac_last_state_change < ACMinOffTime)

\* whether ACController.turn_off() returns True
AC_turn_off_ok == ~ac_is_on \/ ~(now - ac_last_state_change < ACMinRunTime)

AC_turn_on ==
    IF ~ac_is_on /\ AC_turn_on_ok
      THEN /\ ac_relay_out' = TRUE
           /\ ac_is_on' = TRUE
           /\ ac_last_state_change' = now
      ELSE UNCHANGED acRelayVars

AC_turn_off ==
    IF ac_is_on /\ AC_turn_off_ok
      THEN /\ ac_relay_out' = FALSE
           /\ ac_is_on' = FALSE
           /\ ac_last_state_change' = now
      ELSE UNCHANGED acRelayVars

(***************************************************************************)
(* ACMonitor and HeaterMonitor (Scripts/monitors.py)                       *)
(***************************************************************************)
\* the temperatures the sensor may report, on either side of and on the
\* thresholds of a target of 70
Readings == {67, 68, 69, 71, 72, 73}

Truthy_NoneIsTrue(v) == v # "False"

\* monitors.py:196  last_notified_state is None, True or False; `if x` and
\* `if not x` test this
Truthy(v) == v = "True"

ACWantsOn_AtThreshold(current_temp, target_temp, temp_swing) ==
    current_temp >= target_temp + temp_swing

\* monitors.py:193  if current_temp > (self.target_temp + self.temp_swing)
ACWantsOn(current_temp, target_temp, temp_swing) ==
    current_temp > target_temp + temp_swing

\* monitors.py:200  elif current_temp < (self.target_temp - self.temp_swing)
ACWantsOff(current_temp, target_temp, temp_swing) ==
    current_temp < target_temp - temp_swing

\* monitors.py:239  if current_temp < (self.target_temp - self.temp_swing)
HeaterWantsOn(current_temp, target_temp, temp_swing) ==
    current_temp < target_temp - temp_swing

HeaterWantsOff_AtThreshold(current_temp, target_temp, temp_swing) ==
    current_temp >= target_temp + temp_swing

\* monitors.py:246  elif current_temp > (self.target_temp + self.temp_swing)
HeaterWantsOff(current_temp, target_temp, temp_swing) ==
    current_temp > target_temp + temp_swing

EmptySnapshot_Never(temp) == FALSE

\* monitors.py:182-183, 228-229  if not temps: return
EmptySnapshot(temp) == temp = None

\* monitors.py:180-207  ACMonitor.run; temp is the first reading of the
\* snapshot, None when the snapshot is empty
ACMonitorRun ==
    \E temp \in Readings \cup {None} :
        /\ op' = "ac_monitor"
        /\ request' = NoRequest
        /\ reapplied' = FALSE
        /\ reading' = temp
        /\ IF EmptySnapshot(temp)
             THEN /\ command' = "none"
                  /\ effects' = <<>>
                  /\ UNCHANGED <<acRelayVars, ac_last_notified_state>>
           ELSE IF ACWantsOn(temp, ac_target_temp, ac_temp_swing)
             THEN /\ command' = "on"
                  /\ AC_turn_on
                  /\ IF AC_turn_on_ok /\ ~Truthy(ac_last_notified_state)
                       THEN /\ effects' = <<"ac_on_notify">>
                            /\ ac_last_notified_state' = "True"
                       ELSE /\ effects' = <<>>
                            /\ UNCHANGED ac_last_notified_state
           ELSE IF ACWantsOff(temp, ac_target_temp, ac_temp_swing)
             THEN /\ command' = "off"
                  /\ AC_turn_off
                  /\ IF AC_turn_off_ok /\ Truthy(ac_last_notified_state)
                       THEN /\ effects' = <<"ac_off_notify">>
                            /\ ac_last_notified_state' = "False"
                       ELSE /\ effects' = <<>>
                            /\ UNCHANGED ac_last_notified_state
           ELSE /\ command' = "none"
                /\ effects' = <<>>
                /\ UNCHANGED <<acRelayVars, ac_last_notified_state>>
        /\ UNCHANGED <<now, relayVars, engineVars, ac_temp_swing, heater_temp_swing,
                       heater_last_notified_state, pollVars, alertVars>>

\* monitors.py:226-253  HeaterMonitor.run
HeaterMonitorRun ==
    \E temp \in Readings \cup {None} :
        /\ op' = "heater_monitor"
        /\ request' = NoRequest
        /\ reapplied' = FALSE
        /\ reading' = temp
        /\ IF EmptySnapshot(temp)
             THEN /\ command' = "none"
                  /\ effects' = <<>>
                  /\ UNCHANGED <<relayVars, heater_last_notified_state>>
           ELSE IF HeaterWantsOn(temp, heater_target_temp, heater_temp_swing)
             THEN /\ command' = "on"
                  /\ Heater_turn_on
                  /\ IF relay_ret' /\ ~Truthy(heater_last_notified_state)
                       THEN /\ effects' = <<"heater_on_notify">>
                            /\ heater_last_notified_state' = "True"
                       ELSE /\ effects' = <<>>
                            /\ UNCHANGED heater_last_notified_state
           ELSE IF HeaterWantsOff(temp, heater_target_temp, heater_temp_swing)
             THEN /\ command' = "off"
                  /\ Heater_turn_off
                  /\ IF relay_ret' /\ Truthy(heater_last_notified_state)
                       THEN /\ effects' = <<"heater_off_notify">>
                            /\ heater_last_notified_state' = "False"
                       ELSE /\ effects' = <<>>
                            /\ UNCHANGED heater_last_notified_state
           ELSE /\ command' = "none"
                /\ effects' = <<>>
                /\ UNCHANGED <<relayVars, heater_last_notified_state>>
        /\ UNCHANGED <<now, acRelayVars, engineVars, ac_temp_swing, heater_temp_swing,
                       ac_last_notified_state, pollVars, alertVars>>

\* time passes between two passes of the main loop
MonitorClock ==
    /\ now < MonitorMaxTime
    /\ now' = now + 1
    /\ op' = "pass"
    /\ request' = NoRequest
    /\ reapplied' = FALSE
    /\ effects' = <<>>
    /\ UNCHANGED <<relayVars, engineVars, monitorVars>>

\* main.py:397-420  the rest of a pass in which the threshold monitors ran
RetryClock ==
    /\ op = "heater_monitor"
    /\ now < RetryMaxTime
    /\ now' = now + 1
    /\ op' = "pass"
    /\ request' = NoRequest
    /\ reapplied' = FALSE
    /\ effects' = <<>>
    /\ UNCHANGED <<relayVars, engineVars, monitorVars>>

\* main.py:425-438  the KeyboardInterrupt handler: ac_controller.turn_off(),
\* heater_controller.turn_off(), then the loop is left
Shutdown ==
    /\ op' = "shutdown"
    /\ request' = NoRequest
    /\ reapplied' = FALSE
    /\ AC_turn_off
    /\ Heater_turn_off
    /\ effects' = <<>>
    /\ UNCHANGED <<now, engineVars, reading, ac_temp_swing, heater_temp_swing,
                   ac_last_notified_state, heater_last_notified_state, command,
                   pollVars, alertVars>>

\* main.py:397  the loop has not been left
Running == op # "shutdown"

(***************************************************************************)
(* Writing config.json.  A save is a sequence of file operations; a        *)
(* process that stops during the save has done a prefix of them.           *)
(***************************************************************************)
\* web_server.py:218-228  _save_config_to_file: json.dump to config.tmp,
\* os.remove('config.json'), os.rename('config.tmp', 'config.json')
WebSaveSteps == <<"write_tmp", "remove_config", "rename_tmp">>

\* scheduler.py:130-131, 196-197  open('config.json', 'w') truncates the
\* file, json.dump then writes the record into it
EngineWriteSteps == <<"truncate_config", "dump_config">>

\* what config.json holds once the file operations done have been carried out
\* on a file holding the complete previous record
StoredAfter(done) ==
    IF done = <<>> \/ done = <<"write_tmp">> THEN "previous"
    ELSE IF done = <<"write_tmp", "remove_config">> THEN "missing"
    ELSE IF done = <<"truncate_config">> THEN "partial"
    ELSE "new"

\* the process has not stopped
NotCrashed == op # "crash"

\* the process stops (crash, power loss) while a web handler saves
CrashInWebSave ==
    /\ NotCrashed
    /\ \E k \in 0..Len(WebSaveSteps) : effects' = SubSeq(WebSaveSteps, 1, k)
    /\ op' = "crash"
    /\ request' = NoRequest
    /\ reapplied' = FALSE
    /\ UNCHANGED <<now, relayVars, engineVars, monitorVars>>

\* the tick due now would write config.json
TickWrites ==
    \E e \in {"expiry_write", "apply_write"} :
        ApplyCount(RunEffects(CurrentState, temp_hold_duration, now, TRUE, TRUE), {e}) > 0

\* the process stops while the schedule engine writes
CrashInEngineWrite ==
    /\ NotCrashed
    /\ TickWrites
    /\ \E k \in 0..Len(EngineWriteSteps) : effects' = SubSeq(EngineWriteSteps, 1, k)
    /\ op' = "crash"
    /\ request' = NoRequest
    /\ reapplied' = FALSE
    /\ UNCHANGED <<now, relayVars, engineVars, monitorVars>>

(***************************************************************************)
(* TemperatureMonitor: alerts, recovery and logging                        *)
(***************************************************************************)
\* what the inside sensor may read: nothing, values around the alert
\* thresholds, and values outside the physical range
AlertReadings ==
    {None, AlertLow - 1, AlertLow, AlertHigh, AlertHigh + 1, SanityLow - 1, SanityHigh + 1}

\* time.time() at true time t, in seconds
time_time(t) == BootEpoch + t * SecondsPerUnit

Invalid_NoSanity(temp) == temp = None

\* monitors.py:75-82  if not temps: return; if temp < -50 or temp > 150: return
Invalid(temp) == temp = None \/ temp < SanityLow \/ temp > SanityHigh

\* monitors.py:92-101  alert_high / alert_low set and crossed
alert_condition(temp) ==
    IF AlertHigh # 0 /\ temp > AlertHigh THEN TRUE
    ELSE AlertLow # 0 /\ temp < AlertLow

Alerts_Repeats(cond, sent) == cond

\* monitors.py:104  if alert_condition and not self.alert_sent
Alerts(cond, sent) == cond /\ ~sent

Elapsed_SinceBoot(current_time, start) == current_time

\* monitors.py:121  current_time - self.alert_start_time if self.alert_start_time else 0
Elapsed(current_time, start) ==
    IF start # None /\ start # 0 THEN current_time - start ELSE 0

NoDuration == [unit |-> "", major |-> 0, minor |-> 0]

\* monitors.py:124-133  "{}h {}m", "{}m {}s" or "{}s"
FormatDuration(duration) ==
    IF duration >= 3600
      THEN [unit |-> "h", major |-> duration \div 3600, minor |-> (duration % 3600) \div 60]
    ELSE IF duration >= 60
      THEN [unit |-> "m", major |-> duration \div 60, minor |-> duration % 60]
    ELSE [unit |-> "s", major |-> duration, minor |-> 0]

\* monitors.py:69-147  TemperatureMonitor.run
TemperatureRun ==
    \E temp \in AlertReadings :
        LET current_time == time_time(now)
            cond == alert_condition(temp)
            logs == current_time - last_report >= ReportInterval
        IN  /\ op' = "temperature_monitor"
            /\ request' = NoRequest
            /\ reapplied' = FALSE
            /\ reading' = temp
            /\ IF Invalid(temp)
                 THEN /\ effects' = <<>>
                      /\ duration_str' = NoDuration
                      /\ UNCHANGED <<alert_sent, alert_start_time, last_temp, last_report,
                                     excursionStart, lastNotice>>
                 ELSE /\ last_temp' = temp
                      /\ last_report' = IF logs THEN current_time ELSE last_report
                      /\ IF Alerts(cond, alert_sent)
                           THEN /\ alert_start_time' = current_time
                                /\ excursionStart' = now
                                /\ alert_sent' = TRUE
                                /\ duration_str' = NoDuration
                                /\ lastNotice' = "alert"
                                /\ effects' = <<"alert">> \o (IF logs THEN <<"log">> ELSE <<>>)
                         ELSE IF ~cond /\ alert_sent
                           THEN /\ duration_str' =
                                       FormatDuration(Elapsed(current_time, alert_start_time))
                                /\ alert_sent' = FALSE
                                /\ alert_start_time' = None
                                /\ excursionStart' = None
                                /\ lastNotice' = "recovery"
                                /\ effects' = <<"recovery">> \o (IF logs THEN <<"log">> ELSE <<>>)
                         ELSE /\ duration_str' = NoDuration
                              /\ effects' = IF logs THEN <<"log">> ELSE <<>>
                              /\ UNCHANGED <<alert_sent, alert_start_time, excursionStart,
                                             lastNotice>>
            /\ UNCHANGED <<now, relayVars, engineVars, acRelayVars, ac_temp_swing,
                           heater_temp_swing, ac_last_notified_state,
                           heater_last_notified_state, command, pollVars>>

(***************************************************************************)
(* Interval gating: should_run of the monitors                             *)
(***************************************************************************)
Pollers == {"ac_monitor", "schedule_monitor", "temperature_monitor"}

\* main.py:278, 306, 365  the interval each monitor is built with
Interval(m) ==
    IF m = "ac_monitor" THEN PollInterval
    ELSE IF m = "schedule_monitor" THEN ScheduleInterval
    ELSE CheckInterval

Monitor_should_run_Always(t, last) == TRUE

\* monitors.py:16-17  time.ticks_diff(now, self.last_check_ms) >= interval
Monitor_should_run(t, last) == ticks_diff(ticks_ms(t), last) >= PollInterval

\* scheduler.py:27-28, monitors.py:63-64  current_time - self.last_check >= interval
should_run(t, last, interval) == t - last >= interval

\* monitors.py:305-306  one pass of run_monitors over the gates: every monitor
\* is polled, and the ones that are due stamp the time
PollPass ==
    LET due == [m \in Pollers |->
                   IF m = "ac_monitor" THEN Monitor_should_run(now, last_check_ms)
                   ELSE should_run(now, last_check[m], Interval(m))]
    IN  /\ last_check_ms' = IF due["ac_monitor"] THEN ticks_ms(now) ELSE last_check_ms
        /\ last_check' = [m \in DOMAIN last_check |-> IF due[m] THEN now ELSE last_check[m]]
        /\ lastRunAt' = [m \in Pollers |-> IF due[m] THEN now ELSE lastRunAt[m]]
        /\ op' = "poll"
        /\ request' = NoRequest
        /\ reapplied' = FALSE
        /\ effects' = <<>>
        /\ UNCHANGED <<now, relayVars, engineVars, acRelayVars, reading, ac_temp_swing,
                       heater_temp_swing, ac_last_notified_state,
                       heater_last_notified_state, command, alertVars>>

\* the longest a pass lasts: far less than half the tick period less the
\* polling interval (days on the board, against passes of seconds)
MaxPassTime == TicksPeriod \div 2 - PollInterval

\* main.py:397-420  the rest of the pass and time.sleep: d time units go by
PollClock ==
    /\ op = "poll"
    /\ \E d \in 1..MaxPassTime : now + d <= PollMaxTime /\ now' = now + d
    /\ op' = "pass"
    /\ request' = NoRequest
    /\ reapplied' = FALSE
    /\ effects' = <<>>
    /\ UNCHANGED <<relayVars, engineVars, monitorVars>>

(***************************************************************************)
(* One pass of the main loop: run_monitors polls the registered monitors  *)
(* in order, then the web server is served and the loop sleeps.           *)
(***************************************************************************)
monitors_ThresholdFirst == <<"ac_monitor", "heater_monitor", "schedule_monitor">>

\* main.py:348-358  the registration order of the monitors that read or write
\* the targets and the relays (the WiFi and logging monitors touch neither)
monitors == <<"schedule_monitor", "ac_monitor", "heater_monitor">>

\* the monitor whose poll the last step was, "" between two passes
PolledMonitor ==
    IF op \in {"tick", "tick_not_due"} THEN "schedule_monitor"
    ELSE IF op \in {"ac_monitor", "ac_not_due"} THEN "ac_monitor"
    ELSE IF op \in {"heater_monitor", "heater_not_due"} THEN "heater_monitor"
    ELSE ""

\* scheduler.py:219, 67  the run() of the schedule engine that was the last
\* step raised: _find_active_schedule raised on the config run() left
Raised == op = "tick" /\ FindActive(config, now).status = "raised"

NextPolled_Propagates(i, raised) == IF raised THEN Len(monitors) ELSE i

\* monitors.py:305-310  how many monitors of the list the for loop has done
\* once the i-th has been polled: the try/except around monitor.run() swallows
\* what it raises, so the loop goes on to the next one
NextPolled(i, raised) == i

\* how many monitors the pass in progress has polled
Polled ==
    IF PolledMonitor = "" THEN 0
    ELSE NextPolled(CHOOSE i \in 1..Len(monitors) : monitors[i] = PolledMonitor, Raised)

\* monitors.py:305  the for loop has reached monitor m
Reached(m) == Polled < Len(monitors) /\ monitors[Polled + 1] = m

\* monitors.py:305  the for loop is over
PassDone == Polled = Len(monitors)

\* scheduler.py:25-31  ScheduleMonitor.should_run returns False
ScheduleNotDue ==
    /\ op' = "tick_not_due"
    /\ request' = NoRequest
    /\ reapplied' = FALSE
    /\ effects' = <<>>
    /\ result' = "not_due"
    /\ UNCHANGED <<now, relayVars, monitorVars, config, ac_target_temp,
                   heater_target_temp, last_applied_schedule, temp_hold_duration,
                   holdEntry>>

\* monitors.py:14-20  Monitor.should_run returns False
MonitorNotDue(kind) ==
    /\ op' = kind
    /\ request' = NoRequest
    /\ reapplied' = FALSE
    /\ effects' = <<>>
    /\ UNCHANGED <<now, relayVars, engineVars, monitorVars>>

(***************************************************************************)
(* Start-up (main.py)                                                      *)
(***************************************************************************)
DefaultSchedules ==
    <<Entry(<<6, 0>>, "A", 80, 70), Entry(<<18, 0>>, "B", 70, 70)>>

Record(se, ph, start) ==
    [schedule_enabled |-> se, permanent_hold |-> ph, temp_hold_start_time |-> start,
     temp_hold_duration |-> HoldDuration, ac_target |-> 80, heater_target |-> 70,
     schedules |-> DefaultSchedules]

\* the records config.json may hold when the process starts: saved in
\* Automatic, in a permanent hold, or in a temporary hold
LoadedRecords ==
    { Record("True", "False", None),
      Record("False", "True", None),
      Record("False", "False", 0) }

\* main.py:155-162  the hold keys that are present are reset
ResetHold(rec) ==
    [rec EXCEPT !.schedule_enabled = IF @ # "Absent" THEN "True" ELSE @,
                !.permanent_hold = IF @ # "Absent" THEN "False" ELSE @,
                !.temp_hold_start_time = IF @ # Absent THEN None ELSE @]

\* main.py:148-325  load, reset the hold, save, build the monitors, apply the
\* active schedule
Boot(rec) ==
    LET cfg == ResetHold(rec)
        st == EngineState(cfg, cfg.ac_target, cfg.heater_target, NoApplied)
        active == FindActive(cfg, 0)
    IN  IF GetBool(cfg.schedule_enabled) /\ active.status = "found"
          THEN _apply_schedule(st, active.sched)
          ELSE st

\* main.py:148-325  the state when the main loop is entered, the process
\* having loaded one of records
Started(records) ==
    /\ now = 0
    /\ is_on = FALSE
    /\ relay_out = FALSE
    /\ last_state_change = ticks_ms(0)
    /\ lastOnAt = None
    /\ lastOffAt = 0
    /\ relay_ret = TRUE
    /\ \E rec \in records :
           LET st == Boot(rec)
           IN  /\ config = st.config
               /\ ac_target_temp = st.ac
               /\ heater_target_temp = st.heater
               /\ last_applied_schedule = st.last
               /\ temp_hold_duration = rec.temp_hold_duration
    /\ holdEntry = "none"
    /\ ac_is_on = FALSE
    /\ ac_relay_out = FALSE
    /\ ac_last_state_change = 0
    /\ reading = None
    /\ ac_temp_swing = DefaultACSwing
    /\ heater_temp_swing = DefaultHeaterSwing
    /\ ac_last_notified_state = "None"
    /\ heater_last_notified_state = "None"
    /\ command = "none"
    /\ request = NoRequest
    /\ reapplied = FALSE
    /\ effects = <<>>
    /\ op = "boot"
    /\ result = "none"
    /\ last_check_ms = 0
    /\ last_check = [m \in {"schedule_monitor", "temperature_monitor"} |-> 0]
    /\ lastRunAt = [m \in Pollers |-> None]
    /\ alert_sent = FALSE
    /\ alert_start_time = None
    /\ last_temp = None
    /\ last_report = 0
    /\ excursionStart = None
    /\ duration_str = NoDuration
    /\ lastNotice = "none"

Init == Started(LoadedRecords)

\* the relay under arbitrary calls and clock advances
NextRelay == turn_on \/ turn_off \/ RelayClock

SpecRelay == Init /\ [][NextRelay]_vars

\* the relay under arbitrary calls, force_off among them
NextForce == turn_on \/ turn_off \/ force_off \/ RelayClock

SpecForce == Init /\ [][NextForce]_vars

\* the schedule engine under ticks, clock advances and web requests
UserAction ==
    \/ HandleResume
    \/ HandleTemporaryHold
    \/ HandlePermanentHold
    \/ HandleUpdate
    \/ HandleScheduleSave

Next == ScheduleTick \/ AdvanceClock \/ UserAction

Spec == Init /\ [][Next]_vars

\* the engine with fair ticks and a fair clock, under the mode actions and
\* manual submissions; requests arrive only while the clock can still run for
\* a full hold duration after them
RequestWindow == now + temp_hold_duration <= MaxTime

\* a manual submission of a heater target
LiveUpdate == \E ht \in Temps, hold_type \in {"temp", "perm"} : Update(Missing, ht, hold_type)

NextLive ==
    \/ ScheduleTick
    \/ AdvanceClock
    \/ (RequestWindow /\ HandleResume)
    \/ (RequestWindow /\ HandleTemporaryHold)
    \/ (RequestWindow /\ HandlePermanentHold)
    \/ (RequestWindow /\ LiveUpdate)

SpecLive == Init /\ [][NextLive]_vars /\ WF_vars(ScheduleTick) /\ WF_vars(AdvanceClock)

\* the threshold monitors under readings, schedule ticks and the clock
NextMonitors == ACMonitorRun \/ HeaterMonitorRun \/ ScheduleTick \/ MonitorClock

SpecMonitors == Init /\ [][NextMonitors]_vars

\* the threshold monitors and the clock until the user interrupts the loop
NextShutdown ==
    \/ (Running /\ ACMonitorRun)
    \/ (Running /\ HeaterMonitorRun)
    \/ (Running /\ MonitorClock)
    \/ (Running /\ Shutdown)

SpecShutdown == Init /\ [][NextShutdown]_vars

\* the engine and the web handlers until the process stops during a save
NextSave ==
    \/ (NotCrashed /\ ScheduleTick)
    \/ (NotCrashed /\ AdvanceClock)
    \/ (NotCrashed /\ HandleResume)
    \/ (NotCrashed /\ HandleTemporaryHold)
    \/ (NotCrashed /\ HandlePermanentHold)
    \/ (NotCrashed /\ LiveUpdate)
    \/ CrashInWebSave
    \/ CrashInEngineWrite

SpecSave == Init /\ [][NextSave]_vars

\* passes in which the heater monitor is due: its run, then the rest of the
\* pass
NextRetry ==
    \/ (op \in {"boot", "pass"} /\ HeaterMonitorRun)
    \/ RetryClock

SpecRetry ==
    /\ Init /\ [][NextRetry]_vars
    /\ WF_vars(op \in {"boot", "pass"} /\ HeaterMonitorRun)
    /\ WF_vars(RetryClock)

\* the advanced settings form under ticks and the clock
NextSettings == HandleSettingsUpdate \/ ScheduleTick \/ AdvanceClock

SpecSettings == Init /\ [][NextSettings]_vars

\* the temperature monitor under readings and the clock
NextAlert == TemperatureRun \/ MonitorClock

SpecAlert == Init /\ [][NextAlert]_vars

\* the gates of the monitors under passes of varying length
NextPoll == PollPass \/ PollClock

SpecPoll == Init /\ [][NextPoll]_vars

\* the records the pass-ordered loop starts from: the default schedules, and a
\* list with two entries at 06:00, on which _find_active_schedule raises
PassRecords ==
    { Record("True", "False", None),
      [Record("True", "False", None) EXCEPT !.schedules =
          <<Entry(<<6, 0>>, "A", 80, 70), Entry(<<6, 0>>, "D", 80, 80),
            Entry(<<18, 0>>, "B", 70, 70)>>] }

InitPass == Started(PassRecords)

\* main.py:397-420  the passes of the main loop: the monitors in registration
\* order, each run if due, then the rest of the pass
NextPass ==
    \/ (Reached("schedule_monitor") /\ ScheduleTick)
    \/ (Reached("schedule_monitor") /\ ScheduleNotDue)
    \/ (Reached("ac_monitor") /\ ACMonitorRun)
    \/ (Reached("ac_monitor") /\ MonitorNotDue("ac_not_due"))
    \/ (Reached("heater_monitor") /\ HeaterMonitorRun)
    \/ (Reached("heater_monitor") /\ MonitorNotDue("heater_not_due"))
    \/ (PassDone /\ MonitorClock)

SpecPass == InitPass /\ [][NextPass]_vars

\* the entries a hand-edited or older config.json may list: two at 06:00, one
\* at 12:00, one at 18:00, and one whose time has no colon
StartEntries ==
    { Entry(<<6, 0>>, "A", 80, 70), Entry(<<6, 0>>, "D", 80, 80),
      Entry(<<12, 0>>, "C", 80, 70), Entry(<<18, 0>>, "B", 70, 70),
      Entry(<<6>>, "U", 80, 70) }

MaxSchedules == 3

StartLists == UNION {[1..n -> StartEntries] : n \in 0..MaxSchedules}

\* the records json.load may return: each hold key present with either value
\* or absent, over every schedule list
StartRecords ==
    { [Record(se, ph, start) EXCEPT !.schedules = l] :
        se \in {"True", "False", "Absent"}, ph \in {"True", "False", "Absent"},
        start \in {None, 0, Absent}, l \in StartLists }

InitStart == Started(StartRecords)

\* the engine started from any loadable record, under ticks and the clock
NextStart == ScheduleTick \/ AdvanceClock

SpecStart == InitStart /\ [][NextStart]_vars

(***************************************************************************)
(* Properties                                                              *)
(***************************************************************************)
\* The schedules that steps 2-6 of the resolution algorithm designate at time
\* t: the entries with the greatest minutes not after the current minutes, or,
\* when none has passed, those with the greatest minutes of all.
IntendedActive(schedules, t) ==
    LET parseable == {i \in 1..Len(schedules) : _parse_time(schedules[i].time) # None}
        minutes(i) == _parse_time(schedules[i].time)
        passed == {i \in parseable : minutes(i) <= _get_current_minutes(t)}
        pool == IF passed # {} THEN passed ELSE parseable
    IN  {schedules[i] : i \in {k \in pool : \A j \in pool : minutes(j) <= minutes(k)}}

\* both monitors carry the targets of one of the designated schedules
TargetsFollow(entries, ac, ht) ==
    entries = {} \/ \E e \in entries : ac = e.ac_target /\ ht = e.heater_target

\* C1: every on->off transition of the output comes at least min_run_time
\* after the preceding off->on transition, and every off->on transition at
\* least min_off_time after the preceding on->off transition or construction.
C1_Debounce ==
    [][ /\ (relay_out /\ ~relay_out') => (now' - lastOnAt >= MinRunTime)
        /\ (~relay_out /\ relay_out') => (now' - lastOffAt >= MinOffTime) ]_vars

\* the relay went on, ran, and was turned off after the tick counter wrapped
C1_Witness ==
    /\ op = "turn_off" /\ relay_ret /\ ~relay_out
    /\ lastOnAt # None /\ lastOffAt >= lastOnAt + MinRunTime
    /\ now >= TicksPeriod

\* C2: the heater target never exceeds the AC target.
C2_HeaterNotAboveAC == heater_target_temp <= ac_target_temp

\* C3: schedule_enabled and permanent_hold are never both true, so the pair
\* encodes exactly one of Automatic, TemporaryHold, PermanentHold.
C3_ModeClosure ==
    /\ ~(GetBool(config.schedule_enabled) /\ GetBool(config.permanent_hold))
    /\ Mode(config) \in {"Automatic", "TemporaryHold", "PermanentHold"}

\* a permanent hold entered on top of a temporary one whose timer still stands
C3_Witness ==
    /\ Mode(config) = "PermanentHold"
    /\ GetNum(config.temp_hold_start_time) # None

\* C4: in a temporary hold that a manual submission entered at t0, a tick
\* before t0 + D leaves the mode TemporaryHold; a tick at or after t0 + D sets
\* the mode to Automatic and leaves the monitors with the targets of the
\* schedule active at that tick.
C4_HoldExpiry ==
    [][ ( /\ op' = "tick"
          /\ Mode(config) = "TemporaryHold"
          /\ holdEntry = "manual" )
        => IF now - GetNum(config.temp_hold_start_time) < temp_hold_duration
             THEN Mode(config') = "TemporaryHold"
             ELSE /\ Mode(config') = "Automatic"
                  /\ TargetsFollow(IntendedActive(config.schedules, now),
                                   ac_target_temp', heater_target_temp') ]_vars

\* C5: an explicit temporary-hold request at time t enters TemporaryHold with
\* the hold start time recorded as t.
C5_TemporaryHoldStartsTimer ==
    [][ op' = "temporary_hold"
        => /\ Mode(config') = "TemporaryHold"
           /\ config'.temp_hold_start_time = now ]_vars

\* C6: once the user sends no further request, ticks and the clock going on,
\* the mode does not stay TemporaryHold: the hold expires into Automatic.
C6_TemporaryHoldExpires ==
    <>[](Mode(config) # "TemporaryHold")

\* C7: a tick in PermanentHold leaves the mode PermanentHold.
C7_PermanentHoldSticky ==
    [][ (op' = "tick" /\ Mode(config) = "PermanentHold")
        => Mode(config') = "PermanentHold" ]_vars

\* a tick ran in a permanent hold whose stored timer had run out
C7_Witness ==
    /\ op = "tick"
    /\ Mode(config) = "PermanentHold"
    /\ GetNum(config.temp_hold_start_time) # None
    /\ now - GetNum(config.temp_hold_start_time) >= temp_hold_duration

\* C8: after a permanent-hold request, by the mode action or by a manual
\* submission that enters the permanent hold, no hold start time is stored.
C8_PermanentHoldClearsTimer ==
    [][ ( \/ op' = "permanent_hold"
          \/ ( /\ op' = "update"
               /\ Mode(config) # "PermanentHold"
               /\ Mode(config') = "PermanentHold" ) )
        => GetNum(config'.temp_hold_start_time) = None ]_vars

\* C9: a resume from a hold sets the mode to Automatic and, when a schedule
\* exists, leaves the monitors with the targets of the schedule active then.
C9_ResumeReapplies ==
    [][ (op' = "resume" /\ Mode(config) \in {"TemporaryHold", "PermanentHold"})
        => /\ Mode(config') = "Automatic"
           /\ TargetsFollow(IntendedActive(config.schedules, now),
                            ac_target_temp', heater_target_temp') ]_vars

\* C10: a tick in PermanentHold or in a TemporaryHold that has not run out
\* resolves no schedule and leaves the monitors' and the configured targets,
\* and the last applied schedule, as they were.
C10_HoldSuspendsSchedule ==
    [][ ( /\ op' = "tick"
          /\ \/ Mode(config) = "PermanentHold"
             \/ /\ Mode(config) = "TemporaryHold"
                /\ \/ GetNum(config.temp_hold_start_time) = None
                   \/ now - GetNum(config.temp_hold_start_time) < temp_hold_duration )
        => /\ FindActive(config', now).status = "none"
           /\ ac_target_temp' = ac_target_temp
           /\ heater_target_temp' = heater_target_temp
           /\ config'.ac_target = config.ac_target
           /\ config'.heater_target = config.heater_target
           /\ last_applied_schedule' = last_applied_schedule ]_vars

\* a tick ran in an unexpired temporary hold whose manual AC target differs
\* from that of the schedule the clock designates
C10_Witness ==
    /\ op = "tick"
    /\ Mode(config) = "TemporaryHold"
    /\ GetNum(config.temp_hold_start_time) # None
    /\ now - GetNum(config.temp_hold_start_time) < temp_hold_duration
    /\ \E e \in IntendedActive(config.schedules, now) : e.ac_target # ac_target_temp

\* C11: in Automatic, when the schedule list designates exactly one entry at
\* the current time (the parseable entry with the greatest minutes not after
\* now, or with the greatest minutes of all when none has passed), the
\* resolution finds that entry.
C11_Resolution ==
    (Mode(config) = "Automatic"
        /\ Cardinality(IntendedActive(config.schedules, now)) = 1)
    => /\ FindActive(config, now).status = "found"
       /\ FindActive(config, now).sched \in IntendedActive(config.schedules, now)

\* C12: a tick in Automatic whose resolution finds a schedule other than the
\* last applied one leaves both monitors with that schedule's targets, and
\* the mode Automatic.
C12_TickApplies ==
    [][ ( /\ op' = "tick"
          /\ Mode(config) = "Automatic"
          /\ FindActive(config, now).status = "found"
          /\ ScheduleId(FindActive(config, now).sched) # last_applied_schedule )
        => /\ ac_target_temp' = FindActive(config, now).sched.ac_target
           /\ heater_target_temp' = FindActive(config, now).sched.heater_target
           /\ Mode(config') = "Automatic" ]_vars

\* a tick in Automatic applied a schedule that was not the last applied one
\* and whose targets differed from the configured ones
C12_Witness ==
    /\ op = "tick"
    /\ effects \in {<<"apply_write", "apply_notify">>, <<"apply_write_failed", "apply_notify">>}
    /\ Mode(config) = "Automatic"
    /\ last_applied_schedule # NoApplied

\* the config.json writes _apply_schedule attempted among the effects
ApplyWrites(seq) == ApplyCount(seq, {"apply_write", "apply_write_failed"})

\* the notifications _apply_schedule sent among the effects
ApplyNotifications(seq) == ApplyCount(seq, {"apply_notify"})

\* the second of two consecutive ticks resolves the schedule the first applied
SecondApplication ==
    /\ op = "tick"
    /\ op' = "tick"
    /\ request' = NoRequest
    /\ ApplyNotifications(effects) = 1
    /\ FindActive(config, now).status = "found"
    /\ ScheduleId(FindActive(config, now).sched) = last_applied_schedule

Resulting(submitted, current) == IF submitted # Missing THEN submitted ELSE current

\* C14: a well-formed manual submission under which the heater target would
\* exceed the AC target is answered with the error page, not the status
\* page, and leaves the monitors' targets, the configured targets, the mode
\* and the hold start time as they were.
C14_ManualRejection ==
    [][ ( /\ op' = "update"
          /\ request'.ac # BadNumber
          /\ request'.ht # BadNumber
          /\ Resulting(request'.ht, config.heater_target)
                > Resulting(request'.ac, config.ac_target) )
        => /\ result' = "error_page"
           /\ result' # "status_page"
           /\ ac_target_temp' = ac_target_temp
           /\ heater_target_temp' = heater_target_temp
           /\ config'.ac_target = config.ac_target
           /\ config'.heater_target = config.heater_target
           /\ Mode(config') = Mode(config)
           /\ config'.temp_hold_start_time = config.temp_hold_start_time ]_vars

\* a submission of a heater target alone, above the AC target in effect, was
\* refused
C14_Witness ==
    /\ op = "update"
    /\ result = "error_page"
    /\ request.ac = Missing
    /\ request.ht > config.ac_target

\* C15: a schedule save answered with the error page leaves the engine's
\* state in memory as it was, the schedule list that ticks resolve against
\* in particular.
C15_SaveRejection ==
    [][ (op' = "save_schedules" /\ result' = "error_page")
        => /\ config'.schedules = config.schedules
           /\ UNCHANGED <<config, ac_target_temp, heater_target_temp,
                          last_applied_schedule>> ]_vars

\* C16: in Automatic, a manual submission of the targets the monitors already
\* have leaves the mode Automatic and no hold start time set.
C16_NoHoldWithoutChange ==
    [][ ( /\ op' = "update"
          /\ Mode(config) = "Automatic"
          /\ request'.ac = ac_target_temp
          /\ request'.ht = heater_target_temp )
        => /\ Mode(config') = "Automatic"
           /\ GetNum(config'.temp_hold_start_time) = None ]_vars

\* C17: when the main loop is entered, whatever record was loaded, the mode
\* is Automatic and no hold start time is set.
C17_RebootReset ==
    op = "boot" => /\ Mode(config) = "Automatic"
                   /\ GetNum(config.temp_hold_start_time) = None

\* C18: an AC monitor run that has a reading commands the relay on exactly
\* when the reading is above target + swing, off exactly when it is below
\* target - swing, and otherwise gives no command and leaves the relay as it
\* was.
C18_ACHysteresis ==
    [][ (op' = "ac_monitor" /\ reading' # None)
        => /\ (command' = "on") <=> (reading' > ac_target_temp + ac_temp_swing)
           /\ (command' = "off") <=> (reading' < ac_target_temp - ac_temp_swing)
           /\ (command' = "none") <=> ( /\ reading' <= ac_target_temp + ac_temp_swing
                                        /\ reading' >= ac_target_temp - ac_temp_swing )
           /\ (command' = "none") => UNCHANGED <<ac_is_on, ac_relay_out>> ]_vars

\* the AC monitor ran on a reading equal to target + swing while the relay
\* was on, and gave no command
C18_Witness ==
    /\ op = "ac_monitor"
    /\ reading = ac_target_temp + ac_temp_swing
    /\ command = "none"
    /\ ac_relay_out

\* C19: a heater monitor run that has a reading commands the relay on
\* exactly when the reading is below target - swing, off exactly when it is
\* above target + swing, and otherwise gives no command and leaves the relay
\* as it was.
C19_HeaterHysteresis ==
    [][ (op' = "heater_monitor" /\ reading' # None)
        => /\ (command' = "on") <=> (reading' < heater_target_temp - heater_temp_swing)
           /\ (command' = "off") <=> (reading' > heater_target_temp + heater_temp_swing)
           /\ (command' = "none") <=> ( /\ reading' >= heater_target_temp - heater_temp_swing
                                        /\ reading' <= heater_target_temp + heater_temp_swing )
           /\ (command' = "none") => UNCHANGED <<is_on, relay_out>> ]_vars

\* the heater monitor ran on a reading equal to target + swing while the
\* relay was on, and gave no command
C19_Witness ==
    /\ op = "heater_monitor"
    /\ reading = heater_target_temp + heater_temp_swing
    /\ command = "none"
    /\ relay_out

\* the notifications of the AC monitor among the effects
ACNotifications(seq) == ApplyCount(seq, {"ac_on_notify", "ac_off_notify"})

\* the notifications of the heater monitor among the effects
HeaterNotifications(seq) == ApplyCount(seq, {"heater_on_notify", "heater_off_notify"})

\* C20: a step sends one notification of a monitor if that monitor's relay
\* output changes in it and none otherwise; a monitor run whose command the
\* relay refuses sends nothing and leaves last_notified_state as it was.
C20_NotifyPerTransition ==
    [][ /\ ACNotifications(effects') = IF ac_relay_out' # ac_relay_out THEN 1 ELSE 0
        /\ HeaterNotifications(effects') = IF relay_out' # relay_out THEN 1 ELSE 0
        /\ ( /\ op' = "ac_monitor"
             /\ \/ (command' = "on" /\ ~ac_relay_out')
                \/ (command' = "off" /\ ac_relay_out') )
           => /\ effects' = <<>>
              /\ ac_last_notified_state' = ac_last_notified_state
        /\ ( /\ op' = "heater_monitor"
             /\ \/ (command' = "on" /\ ~relay_out')
                \/ (command' = "off" /\ relay_out') )
           => /\ effects' = <<>>
              /\ heater_last_notified_state' = heater_last_notified_state ]_vars

\* the heater monitor, having announced the heater on, commanded it off
\* before min_run_time had passed: the relay refused and stayed on
C20_Witness ==
    /\ op = "heater_monitor"
    /\ command = "off"
    /\ relay_out
    /\ ~relay_ret
    /\ heater_last_notified_state = "True"
    /\ effects = <<>>

\* C21: turn_on on a relay that is off and went off less than min_off_time
\* ago, and turn_off on a relay that is on and went on less than
\* min_run_time ago, return failure and leave is_on, the output and
\* last_state_change as they were; and between calls, as time passes, none
\* of the three changes.
C21_RejectedNotQueued ==
    [][ /\ (op' = "turn_on" /\ ~is_on /\ now - lastOffAt < MinOffTime)
           => (~relay_ret' /\ UNCHANGED <<is_on, relay_out, last_state_change>>)
        /\ (op' = "turn_off" /\ is_on /\ now - lastOnAt < MinRunTime)
           => (~relay_ret' /\ UNCHANGED <<is_on, relay_out, last_state_change>>)
        /\ (op' = "clock")
           => UNCHANGED <<is_on, relay_out, last_state_change>> ]_vars

\* a turn_on was refused, and the relay is still off now that min_off_time
\* has passed with no further call
C21_Witness ==
    /\ op = "clock"
    /\ ~relay_ret
    /\ ~is_on /\ ~relay_out
    /\ now - lastOffAt >= MinOffTime

\* C22: turn_on on a relay that is on, and turn_off on a relay that is off,
\* return success and leave is_on, the output and last_state_change as they
\* were, so the call does not move the time from which the opposite
\* transition is gated.
C22_IdempotentCall ==
    [][ /\ (op' = "turn_on" /\ is_on)
           => (relay_ret' /\ UNCHANGED <<is_on, relay_out, last_state_change, lastOnAt>>)
        /\ (op' = "turn_off" /\ ~is_on)
           => (relay_ret' /\ UNCHANGED <<is_on, relay_out, last_state_change, lastOffAt>>) ]_vars

\* turn_on was called on a relay that had been on for some time
C22_Witness ==
    /\ op = "turn_on"
    /\ relay_ret
    /\ is_on
    /\ lastOnAt # None
    /\ lastOnAt < now

\* C23: force_off, whatever the state and the time since the last transition,
\* leaves the output off, is_on false and last_state_change at the current
\* tick reading; a turn_on on the relay so left off is refused before
\* min_off_time has passed since then and accepted from then on (within half
\* a period of the tick counter, where ticks_diff is the elapsed time).
C23_ForceOff ==
    [][ /\ (op' = "force_off")
           => /\ ~relay_out' /\ ~is_on'
              /\ last_state_change' = ticks_ms(now)
        /\ (op' = "turn_on" /\ ~is_on /\ now - lastOffAt < TicksPeriod \div 2)
           => (relay_ret' <=> now - lastOffAt >= MinOffTime) ]_vars

\* force_off switched the relay off before min_run_time had passed
C23_Witness ==
    /\ op = "force_off"
    /\ ~relay_out /\ ~is_on
    /\ lastOnAt # None
    /\ now - lastOnAt < MinRunTime
    /\ lastOffAt = now

\* C24: after the shutdown path has run, the heater output is off, however
\* recently the heater was switched on.  (The AC output is handled by the
\* same call on its own controller.)
C24_ShutdownOff ==
    (op = "shutdown") => ~relay_out

\* the effects of the last step before the i-th that are among kinds
WritesBefore(i, kinds) == {j \in 1..(i - 1) : effects[j] \in kinds}

\* C25: in the effects of every step, the notification of a web handler
\* comes after its config.json save was attempted, the expiry notification
\* after the expiry write, and the notification of a schedule application
\* after the write that application attempted.
C25_PersistBeforeNotify ==
    \A i \in 1..Len(effects) :
        /\ (effects[i] = "notify") => WritesBefore(i, {"save", "save_failed"}) # {}
        /\ (effects[i] = "expiry_notify")
             => WritesBefore(i, {"expiry_write", "expiry_write_failed"}) # {}
        /\ (effects[i] = "apply_notify" /\ ApplyWrites(effects) > 0)
             => WritesBefore(i, {"apply_write", "apply_write_failed"}) # {}

\* a tick ended a temporary hold and applied a schedule that changed the
\* targets: two writes, each followed by its notification
C25_Witness ==
    /\ op = "tick"
    /\ effects \in { <<"expiry_write", "expiry_notify", w, "apply_notify">> :
                       w \in {"apply_write", "apply_write_failed"} }

\* a config.json write of the step failed
WriteFailed(seq) ==
    ApplyCount(seq, {"save_failed", "expiry_write_failed", "apply_write_failed"}) > 0

\* C26: a step whose config.json write fails still leaves in memory the mode
\* and the targets the operation sets: Automatic after a resume or an
\* expiry, the hold after a hold request, the submitted targets after a
\* manual submission, the schedule's targets after an application; and a
\* tick that follows with no expiry due keeps that mode.
C26_BestEffort ==
    [][ /\ (op' = "resume" /\ WriteFailed(effects'))
           => Mode(config') = "Automatic"
        /\ (op' = "temporary_hold" /\ WriteFailed(effects'))
           => Mode(config') = "TemporaryHold"
        /\ (op' = "permanent_hold" /\ WriteFailed(effects'))
           => Mode(config') = "PermanentHold"
        /\ (op' = "update" /\ WriteFailed(effects'))
           => /\ Mode(config') # "Automatic"
              /\ ac_target_temp' = Resulting(request'.ac, ac_target_temp)
              /\ heater_target_temp' = Resulting(request'.ht, heater_target_temp)
              /\ config'.ac_target = Resulting(request'.ac, config.ac_target)
              /\ config'.heater_target = Resulting(request'.ht, config.heater_target)
        /\ (op' = "tick" /\ ApplyCount(effects', {"expiry_write_failed"}) > 0)
           => Mode(config') = "Automatic"
        /\ (op' = "tick" /\ ApplyCount(effects', {"apply_write_failed"}) > 0)
           => /\ ac_target_temp' = FindActive(config', now).sched.ac_target
              /\ heater_target_temp' = FindActive(config', now).sched.heater_target
              /\ config'.ac_target = ac_target_temp'
              /\ config'.heater_target = heater_target_temp'
        /\ (WriteFailed(effects) /\ op' = "tick"
               /\ ~ExpiryDue(config, temp_hold_duration, now))
           => Mode(config') = Mode(config) ]_vars

\* a tick ended a temporary hold and applied a schedule with new targets,
\* both writes failing
C26_Witness ==
    /\ op = "tick"
    /\ effects = <<"expiry_write_failed", "apply_write_failed", "apply_notify">>
    /\ Mode(config) = "Automatic"

\* C27: when the process has stopped during a save, config.json holds the
\* complete previous record or the complete new one.
C27_AtomicSave ==
    (op = "crash") => StoredAfter(effects) \in {"previous", "new"}

\* C28: a manual submission with a non-numeric target field returns a result
\* other than the one an accepted submission gets, and leaves the targets, the
\* mode and the hold timer as they were.
C28_MalformedInput ==
    [][(op' = "update" /\ (request'.ac = BadNumber \/ request'.ht = BadNumber))
          => /\ result' # "status_page"
             /\ UNCHANGED <<config, ac_target_temp, heater_target_temp, holdEntry>>]_vars

\* C29: when the run() of the schedule engine raises during a pass, the
\* monitors registered after it are still polled in that pass (the AC monitor
\* next, then the heater monitor), the raising run leaves the relays, the
\* monitors, the targets and the last applied schedule as they were, and the
\* pass ends and the next one starts with the schedule engine again.
C29_FaultIsolation ==
    [][ /\ Raised => op' \in {"ac_monitor", "ac_not_due"}
        /\ (op' = "tick" /\ Raised')
              => UNCHANGED <<relayVars, monitorVars, ac_target_temp, heater_target_temp,
                             last_applied_schedule>>
        /\ (op \in {"ac_monitor", "ac_not_due"}) => op' \in {"heater_monitor", "heater_not_due"}
        /\ (op \in {"heater_monitor", "heater_not_due"}) => op' = "pass"
        /\ (op = "pass") => op' \in {"tick", "tick_not_due"} ]_vars

\* the heater monitor has run and switched the heater on in a pass in which the
\* schedule engine ran and raised
C29_Witness ==
    /\ op = "heater_monitor"
    /\ command = "on"
    /\ relay_out
    /\ result = "none"
    /\ FindActive(config, now).status = "raised"

\* what a threshold monitor commands
Decision(wants_on, wants_off) ==
    IF wants_on THEN "on" ELSE IF wants_off THEN "off" ELSE "none"

\* C30: in every pass the schedule engine is polled before the AC monitor and
\* the AC monitor before the heater monitor; a tick that applies a schedule
\* leaves that schedule's targets in the monitors, no other step of the loop
\* changes them, and a monitor that runs decides on the targets it then holds.
C30_PassOrdering ==
    [][ /\ (op' \in {"ac_monitor", "ac_not_due"}) => op \in {"tick", "tick_not_due"}
        /\ (op' \in {"heater_monitor", "heater_not_due"}) => op \in {"ac_monitor", "ac_not_due"}
        /\ (op' = "tick" /\ ApplyCount(effects', {"apply_notify"}) = 1)
              => /\ ac_target_temp' = FindActive(config', now).sched.ac_target
                 /\ heater_target_temp' = FindActive(config', now).sched.heater_target
        /\ (op' # "tick") => UNCHANGED <<ac_target_temp, heater_target_temp>>
        /\ (op = "tick" /\ op' = "ac_monitor" /\ reading' # None)
              => command' = Decision(ACWantsOn(reading', ac_target_temp, ac_temp_swing),
                                     ACWantsOff(reading', ac_target_temp, ac_temp_swing))
        /\ (op' = "heater_monitor" /\ reading' # None)
              => command' = Decision(
                     HeaterWantsOn(reading', heater_target_temp, heater_temp_swing),
                     HeaterWantsOff(reading', heater_target_temp, heater_temp_swing)) ]_vars

\* on the first day, in the pass at 06:00, the tick has applied the 06:00
\* schedule (AC target 70 -> 80) and the AC monitor, run after it with a
\* reading above the old threshold, has commanded off
C30_Witness ==
    /\ op = "ac_monitor"
    /\ result = "none"
    /\ now < UnitsPerDay
    /\ _get_current_minutes(now) = _parse_time(DefaultSchedules[1].time)
    /\ last_applied_schedule = ScheduleId(DefaultSchedules[1])
    /\ ac_target_temp = DefaultSchedules[1].ac_target
    /\ reading > DefaultSchedules[2].ac_target + ac_temp_swing
    /\ command = "off"

\* C31: two consecutive True returns of a monitor's should_run are at least
\* its interval apart, and a poll made when the interval has elapsed since the
\* monitor's last run returns True.
C31_IntervalGating ==
    [][ \A m \in Pollers :
          /\ (lastRunAt[m] # None /\ lastRunAt'[m] # lastRunAt[m])
                => lastRunAt'[m] - lastRunAt[m] >= Interval(m)
          /\ (op' = "poll" /\ lastRunAt[m] # None /\ now - lastRunAt[m] >= Interval(m))
                => lastRunAt'[m] = now ]_vars

\* every monitor has run, and the tick-gated one has just run again after the
\* tick counter wrapped
C31_Witness ==
    /\ op = "poll"
    /\ now > TicksPeriod
    /\ lastRunAt["ac_monitor"] = now
    /\ \A m \in Pollers : lastRunAt[m] # None

\* a reading that is missing or outside the physical range
Faulty(r) == r = None \/ r < -50 \/ r > 150

\* a valid reading beyond an alert threshold
OutOfRange(r) == ~Faulty(r) /\ (r > AlertHigh \/ r < AlertLow)

\* a valid reading within the alert thresholds
InRange(r) == ~Faulty(r) /\ AlertLow <= r /\ r <= AlertHigh

\* C32: from Normal an out-of-range valid reading moves the sensor to Alerting,
\* records the start time and sends exactly one alert; while Alerting an
\* out-of-range reading sends nothing and leaves the start time unchanged;
\* alerts and recoveries alternate, starting with an alert.
C32_AlertEntry ==
    [][ (op' = "temperature_monitor")
          => /\ (~alert_sent /\ OutOfRange(reading'))
                   => /\ alert_sent'
                      /\ alert_start_time' = time_time(now)
                      /\ excursionStart' = now
                      /\ ApplyCount(effects', {"alert"}) = 1
                      /\ ApplyCount(effects', {"recovery"}) = 0
             /\ (alert_sent /\ OutOfRange(reading'))
                   => /\ ApplyCount(effects', {"alert", "recovery"}) = 0
                      /\ UNCHANGED <<alert_sent, alert_start_time, excursionStart>>
             /\ (ApplyCount(effects', {"alert"}) > 0) => lastNotice \in {"none", "recovery"}
             /\ (ApplyCount(effects', {"recovery"}) > 0) => lastNotice = "alert" ]_vars

\* a further out-of-range reading while Alerting, later than the reading that
\* started the excursion
C32_Witness ==
    /\ op = "temperature_monitor"
    /\ alert_sent
    /\ OutOfRange(reading)
    /\ ApplyCount(effects, {"alert"}) = 0
    /\ excursionStart # None /\ excursionStart > 0 /\ excursionStart < now

\* the seconds a formatted duration stands for
DurationSeconds(s) ==
    IF s.unit = "h" THEN s.major * 3600 + s.minor * 60
    ELSE IF s.unit = "m" THEN s.major * 60 + s.minor
    ELSE s.major

\* C33: from Alerting the first valid in-range reading moves the sensor to
\* Normal, clears the start time and sends exactly one recovery notification;
\* the duration it reports is the time from the reading that started the
\* excursion to this reading, to the second below one hour and to the minute
\* from one hour on.
C33_AlertRecovery ==
    [][ (op' = "temperature_monitor" /\ alert_sent /\ InRange(reading'))
          => LET d == (now - excursionStart) * SecondsPerUnit
             IN  /\ ~alert_sent'
                 /\ alert_start_time' = None
                 /\ ApplyCount(effects', {"recovery"}) = 1
                 /\ ApplyCount(effects', {"alert"}) = 0
                 /\ duration_str'.unit = (IF d >= 3600 THEN "h" ELSE IF d >= 60 THEN "m" ELSE "s")
                 /\ DurationSeconds(duration_str') <= d
                 /\ d - DurationSeconds(duration_str') < (IF d >= 3600 THEN 60 ELSE 1) ]_vars

\* a recovery after more than an hour, reported in hours and minutes
C33_Witness ==
    /\ op = "temperature_monitor"
    /\ lastNotice = "recovery"
    /\ ApplyCount(effects, {"recovery"}) = 1
    /\ ~alert_sent
    /\ duration_str.unit = "h"
    /\ duration_str.minor > 0

\* C34: a run whose reading is missing or outside the physical range sends
\* nothing, logs nothing, and leaves the cached reading, last_report, the
\* alert state and the excursion start as they were.
C34_FaultSkipped ==
    [][ (op' = "temperature_monitor" /\ Faulty(reading'))
          => /\ effects' = <<>>
             /\ UNCHANGED <<alert_sent, alert_start_time, last_temp, last_report,
                            excursionStart, lastNotice>> ]_vars

\* a reading above the physical range during an ongoing excursion
C34_Witness ==
    /\ op = "temperature_monitor"
    /\ reading > 150
    /\ alert_sent
    /\ excursionStart # None /\ excursionStart < now

\* C35: a threshold-monitor run with an empty sensor snapshot issues no relay
\* command, sends no notification and leaves the relays, last_notified_state
\* and the targets as they were.
C35_NoReadingNoAction ==
    [][ (op' \in {"ac_monitor", "heater_monitor"} /\ reading' = None)
          => /\ command' = "none"
             /\ effects' = <<>>
             /\ UNCHANGED <<relayVars, acRelayVars, ac_last_notified_state,
                            heater_last_notified_state, ac_target_temp,
                            heater_target_temp>> ]_vars

\* the heater monitor has run without a reading while the heater is on
C35_Witness ==
    /\ op = "heater_monitor"
    /\ reading = None
    /\ command = "none"
    /\ relay_out

\* C36: both monitors' swing values are greater than zero.
C36_SwingPositive == ac_temp_swing > 0 /\ heater_temp_swing > 0

\* C38: turn_on on a relay that is off is accepted whenever at least
\* min_off_time has truly elapsed since it went off (or was constructed), and
\* turn_off on a relay that is on whenever at least min_run_time has truly
\* elapsed since it went on, however long ago that was.
C38_GateMeasuresElapsed ==
    [][ /\ (op' = "turn_on" /\ ~is_on /\ now - lastOffAt >= MinOffTime)
           => (relay_ret' /\ is_on' /\ relay_out')
        /\ (op' = "turn_off" /\ is_on /\ now - lastOnAt >= MinRunTime)
           => (relay_ret' /\ ~is_on' /\ ~relay_out') ]_vars

\* C39: with the heater target not above the AC target and both swings
\* positive, the heater relay and the AC relay are not both on.
C39_NeverBothOn ==
    (heater_target_temp <= ac_target_temp /\ ac_temp_swing > 0 /\ heater_temp_swing > 0)
        => ~(relay_out /\ ac_relay_out)

\* C40: a tick in Automatic on a non-empty schedule list that passes the save
\* handler's validation resolves an active schedule and applies it: the list
\* is resolved without raising, and after the tick the resolved schedule is
\* the last applied one.
C40_ResolutionSucceeds ==
    [][ ( /\ op' = "tick"
          /\ Mode(config) = "Automatic"
          /\ Len(config.schedules) >= 1
          /\ ~ScheduleRejected(config.schedules) )
        => /\ FindActive(config, now).status = "found"
           /\ last_applied_schedule' = ScheduleId(FindActive(config, now).sched) ]_vars

\* the last time from which the clock still runs long enough for a relay
\* gate to open: one tick period and the longest minimum time
RetryDeadline == RetryMaxTime - (TicksPeriod + MinRunTime + MinOffTime)

\* the heater monitor has just run on a reading that is not on the demand side
HeaterNotDemanded ==
    op = "heater_monitor"
    /\ (reading = None \/ ~(reading < heater_target_temp - heater_temp_swing))

\* the heater monitor has just run on a reading that is not on the release side
HeaterNotReleased ==
    op = "heater_monitor"
    /\ (reading = None \/ ~(reading > heater_target_temp + heater_temp_swing))

\* C37: while the heater monitor keeps running and time advances, a heater
\* that is off is eventually on unless some run of the monitor reads a value
\* that is not on the demand side, and a heater that is on is eventually off
\* unless some run reads a value that is not on the release side.
C37_RetryUntilSuccess ==
    /\ (~relay_out /\ now <= RetryDeadline) ~> (relay_out \/ HeaterNotDemanded)
    /\ (relay_out /\ now <= RetryDeadline) ~> (~relay_out \/ HeaterNotReleased)

\* the heater went off, was demanded again, and has just been switched on by
\* the run at which min_off_time had elapsed
C37_Witness ==
    /\ op = "heater_monitor"
    /\ command = "on"
    /\ relay_out /\ relay_ret
    /\ lastOnAt = now
    /\ lastOffAt > 0
    /\ lastOnAt - lastOffAt = MinOffTime

====
